---- MODULE Spec2Model ----
(***************************************************************************)
(* Whisper Flow frontend: the streaming transport (WhisperWebSocket), the  *)
(* capture session (WhisperFlowApp, AudioProcessor) and the transcript     *)
(* display (UI), as one state machine.                                     *)
(*                                                                         *)
(* Every method of the source is an operator from a world record           *)
(*   w = [ws, env, app, audio, ui, hist]                                   *)
(* to the world record after the call, so that a handler that calls other  *)
(* methods (updateConfig -> disconnect -> onConnectionChange ->            *)
(* stopRecording) is the composition of their operators and one step of    *)
(* the model is one run-to-completion task of the browser's event loop.    *)
(***************************************************************************)
EXTENDS Integers, Sequences, FiniteSets, Bags, TLC

VARIABLES
    ws,     \* the WhisperWebSocket object: websocket, isConnected, reconnectAttempts, reconnectDelay
    env,    \* the browser: sockets the transport no longer references, pending timers, the clock
    app,    \* the WhisperFlowApp object: isRecording, chunkCount, selectedFile
    audio,  \* the AudioProcessor object: initialized, isRecording, lastChunkTime
    ui,     \* the UI object: transcript lines, partialBubble, the buttons, the upload result
    hist    \* observation of the last task that ran (what it was, what it handed to the socket)

vars == <<ws, env, app, audio, ui, hist>>

(***************************************************************************)
(* Bounds of the model                                                     *)
(***************************************************************************)
\* explicit connect()/updateConfig() calls are explored while fewer than
\* MaxLoad sockets and reconnect timers are alive
MaxLoad == 2
\* capture callbacks are explored until chunkCount reaches MaxChunks
MaxChunks == 2
\* the wall clock is read at MaxTicks + 1 instants
MaxTicks == 2
\* inbound texts have at most MaxLen characters
MaxLen == 2
\* inbound events are explored while the display has at most MaxLines lines
MaxLines == 2
\* the arrays of samples given to the conversions have at most MaxSamples
\* samples
MaxSamples == 2
\* and their samples are NaN or n / Den with -MaxAmplitude <= n <= MaxAmplitude
MaxAmplitude == 8

(***************************************************************************)
(* Program constants                                                       *)
(***************************************************************************)
maxReconnectAttempts == 5
BaseDelay == 1000
MaxDelay == 10000
NormalClosure == 1000
GoingAway == 1001
AbnormalClosure == 1006

\* close codes a close event can carry
CloseCodes == {NormalClosure, GoingAway, AbnormalClosure}

Min(a, b) == IF a <= b THEN a ELSE b

(***************************************************************************)
(* Sockets.  A socket is its readyState and whether its handshake ever     *)
(* completed; null is the value of this.websocket before connect() and     *)
(* after disconnect().  The handlers connect() installs on a socket close  *)
(* over `this`, so a socket the transport no longer references still runs  *)
(* them: such sockets live in env.orphans until they close.                *)
(***************************************************************************)
null == [readyState |-> "null", wasOpen |-> FALSE]
NewWebSocket == [readyState |-> "CONNECTING", wasOpen |-> FALSE]

Live(sock) == sock.readyState \in {"CONNECTING", "OPEN", "CLOSING"}

\* WebSocket.close(): a no-op on a CLOSING or CLOSED socket, otherwise the
\* socket starts closing
close(sock) ==
    IF sock.readyState \in {"CONNECTING", "OPEN"}
    THEN [sock EXCEPT !.readyState = "CLOSING"]
    ELSE sock

\* the codes the close event of a socket can carry: a socket that never
\* opened fails with 1006; an open socket, or one closing after it was open,
\* carries the code of the peer's Close frame, or 1006 when the connection
\* is lost without one
CodesOf(sock) == IF sock.wasOpen THEN CloseCodes ELSE {AbnormalClosure}

(***************************************************************************)
(* Observation of the running task: hist.op names the task, hist.notes     *)
(* are the notifications it showed (showError / showSuccess /              *)
(* showUploadResult), hist.signals the values it passed to                 *)
(* onConnectionChange, hist.tx the chunks it handed to WebSocket.send,     *)
(* hist.threw whether a sendAudioChunk call it made threw, hist.delay the  *)
(* delay it gave to setTimeout (0: it set no timer), hist.code the code of *)
(* the close event it handled, hist.sock the socket whose event it handled *)
(* as it was before the event and hist.current whether this.websocket      *)
(* referenced it, hist.pre the transport, the session and the display as   *)
(* the task found them, hist.frame the frame it received, hist.outcome     *)
(* what the upload it ran came to, hist.firedStale whether it was the      *)
(* callback of a timer set before the latest explicit connect(),           *)
(* disconnect() or updateConfig().  Across tasks: hist.stale counts the    *)
(* pending timers set before the latest explicit call, and hist.chain the  *)
(* abnormal closures since the latest handshake (-1 once an explicit call  *)
(* intervened), hist.further the sockets connect() created since the first *)
(* abnormal closure after the latest handshake or explicit call (-1 before *)
(* that closure), and hist.rejected tells whether a socket delivered a     *)
(* frame that JSON.parse rejected.                                         *)
(* Of the capture callbacks: hist.input is the  *)
(* frame of samples the task's callback received and hist.chunks the       *)
(* chunks it passed to onAudioChunk (for a conversion applied alone,       *)
(* hist.input is its argument, hist.chunks holds its result and hist.rates *)
(* the sample rates given to resampleAudio); where the session's callbacks *)
(* are recorded, hist.captured lists the time and the frame of each        *)
(* callback since AudioProcessor.startRecording() and hist.forwarded the   *)
(* time and the chunk of each call of onAudioChunk.                        *)
(***************************************************************************)
NoFrame == [json |-> FALSE, hasData |-> FALSE, text |-> <<>>, is_partial |-> FALSE]

begin(w, op) ==
    [w EXCEPT !.hist.op = op, !.hist.notes = <<>>, !.hist.signals = <<>>,
              !.hist.tx = 0, !.hist.threw = FALSE, !.hist.delay = 0,
              !.hist.code = 0, !.hist.sock = null, !.hist.current = FALSE,
              !.hist.firedStale = FALSE, !.hist.frame = NoFrame,
              !.hist.outcome = "", !.hist.input = <<>>, !.hist.chunks = <<>>,
              !.hist.rates = <<0, 0>>,
              !.hist.pre = [ws |-> w.ws, timers |-> w.env.timers,
                            isRecording |-> w.app.isRecording,
                            app |-> w.app, audio |-> w.audio, ui |-> w.ui]]

\* the task is an event of socket sock, which this.websocket references or not
event(w, op, sock, current) ==
    [begin(w, op) EXCEPT !.hist.sock = sock, !.hist.current = current]

\* UI.showError
showError(w, message) == [w EXCEPT !.hist.notes = Append(@, <<"error", message>>)]

\* UI.showSuccess
showSuccess(w, message) == [w EXCEPT !.hist.notes = Append(@, <<"success", message>>)]

(***************************************************************************)
(* UI: the transcript display and the recording buttons                    *)
(***************************************************************************)
\* UI.updateRecordingState: recordButton.disabled = isRecording,
\* stopButton.disabled = !isRecording
updateRecordingState(w, isRecording) ==
    [w EXCEPT !.ui.recordDisabled = isRecording, !.ui.stopDisabled = ~isRecording]

\* UI.clearTranscription
clearTranscription(w) == [w EXCEPT !.ui.lines = <<>>, !.ui.partialBubble = 0]

\* showPartialTranscription creating a line for every event
showPartialTranscription_alwaysCreates(w, text) ==
    [w EXCEPT !.ui.lines = Append(@, [text |-> text, className |-> "partial"]),
              !.ui.partialBubble = Len(w.ui.lines) + 1]

\* showPartialTranscription reusing the last line of the display when no
\* bubble is open
showPartialTranscription_reusesLastLine(w, text) ==
    LET created == IF w.ui.partialBubble = 0
                   THEN IF w.ui.lines = <<>>
                        THEN [w EXCEPT !.ui.lines = Append(@, [text |-> <<>>, className |-> "partial"]),
                                       !.ui.partialBubble = 1]
                        ELSE [w EXCEPT !.ui.lines[Len(w.ui.lines)].className = "partial",
                                       !.ui.partialBubble = Len(w.ui.lines)]
                   ELSE w
    IN [created EXCEPT !.ui.lines[created.ui.partialBubble].text = text]

\* UI.showPartialTranscription
showPartialTranscription(w, text) ==
    LET created == IF w.ui.partialBubble = 0
                   THEN [w EXCEPT !.ui.lines = Append(@, [text |-> <<>>, className |-> "partial"]),
                                  !.ui.partialBubble = Len(w.ui.lines) + 1]
                   ELSE w
    IN [created EXCEPT !.ui.lines[created.ui.partialBubble].text = text]

\* finalizePartialTranscription forgetting the bubble without marking it final
finalizePartialTranscription_keepsClass(w) ==
    IF w.ui.partialBubble # 0
    THEN [w EXCEPT !.ui.partialBubble = 0]
    ELSE w

\* UI.finalizePartialTranscription
finalizePartialTranscription(w) ==
    IF w.ui.partialBubble # 0
    THEN [w EXCEPT !.ui.lines[w.ui.partialBubble].className = "final",
                   !.ui.partialBubble = 0]
    ELSE w

\* UI.updateUploadButtonState
updateUploadButtonState(w, hasFile) == [w EXCEPT !.ui.uploadDisabled = ~hasFile]

\* UI.showUploadResult: the one result element is overwritten
showUploadResult(w, success, message) ==
    [w EXCEPT !.ui.uploadResult = IF success THEN "success" ELSE "error",
              !.hist.notes = Append(@, <<IF success THEN "upload-success" ELSE "upload-error",
                                         message>>)]

(***************************************************************************)
(* Audio samples.  A float32 sample is the rational n / Den, written as    *)
(* the integer n, or NaN, an integer that is no sample's n; a frame is a   *)
(* sequence of samples.  An Int16Array element holds the value assigned to *)
(* it modulo 2^16, and 0 for NaN.                                          *)
(***************************************************************************)
Den == 4
NaN == 999999

\* Math.round of the rational p / q, q > 0: the nearest integer, a half
\* going up
MathRound(p, q) == (2 * p + q) \div (2 * q)

\* the value an Int16Array element holds after v is assigned to it
ToInt16(v) == IF v = NaN THEN 0 ELSE ((v + 32768) % 65536) - 32768

\* Math.max(-1, Math.min(1, x)); NaN when x is NaN
Clamp(x) == IF x = NaN THEN NaN
            ELSE IF x > Den THEN Den ELSE IF x < -Den THEN -Den ELSE x

\* the loop body scaling positive samples by 32768 as well
ConvertSample_scalesBy32768(x) ==
    LET sample == Clamp(x)
    IN IF sample = NaN THEN ToInt16(NaN)
       ELSE ToInt16(MathRound(sample * 32768, Den))

\* the loop body of convertToPCM: NaN >= 0 is false and Math.round(NaN) is
\* NaN
ConvertSample(x) ==
    LET sample == Clamp(x)
    IN IF sample = NaN THEN ToInt16(NaN)
       ELSE IF sample >= 0 THEN ToInt16(MathRound(sample * 32767, Den))
            ELSE ToInt16(MathRound(sample * 32768, Den))

\* AudioProcessor.convertToPCM
convertToPCM(float32Array) ==
    [i \in 1..Len(float32Array) |-> ConvertSample(float32Array[i])]

\* FileAudioProcessor.convertToPCM, a copy of the loop above in the source
fileConvertToPCM(float32Array) ==
    [i \in 1..Len(float32Array) |->
        LET x == float32Array[i]
            sample == IF x = NaN THEN NaN
                      ELSE IF x < Den THEN (IF -Den > x THEN -Den ELSE x) ELSE Den
        IN IF sample = NaN THEN ToInt16(NaN)
           ELSE IF sample >= 0 THEN ToInt16(MathRound(sample * 32767, Den))
                ELSE ToInt16(MathRound(sample * 32768, Den))]

\* resampleAudio taking Math.floor of the source index
resampleAudio_floorsIndex(audioData, originalSampleRate, targetSampleRate) ==
    IF originalSampleRate = targetSampleRate THEN audioData
    ELSE LET newLength == MathRound(Len(audioData) * targetSampleRate, originalSampleRate)
         IN [k \in 1..newLength |->
                LET index == ((k - 1) * originalSampleRate) \div targetSampleRate
                IN IF index < Len(audioData) /\ audioData[index + 1] # NaN
                   THEN audioData[index + 1]
                   ELSE 0]

\* FileAudioProcessor.resampleAudio: ratio is originalSampleRate /
\* targetSampleRate, element i (from 0) of the result is
\* audioData[Math.round(i * ratio)] || 0, which is 0 when the index is past
\* the end (undefined) and when the sample there is NaN
resampleAudio(audioData, originalSampleRate, targetSampleRate) ==
    IF originalSampleRate = targetSampleRate THEN audioData
    ELSE LET newLength == MathRound(Len(audioData) * targetSampleRate, originalSampleRate)
         IN [k \in 1..newLength |->
                LET index == MathRound((k - 1) * originalSampleRate, targetSampleRate)
                IN IF index < Len(audioData) /\ audioData[index + 1] # NaN
                   THEN audioData[index + 1]
                   ELSE 0]

(***************************************************************************)
(* Inbound messages.  A text is a sequence of characters; String.trim      *)
(* strips the white space at both ends.                                    *)
(***************************************************************************)
Chars == {" ", "a"}

RECURSIVE trimStart(_)
trimStart(text) ==
    IF text # <<>> /\ Head(text) = " " THEN trimStart(Tail(text)) ELSE text

RECURSIVE trimEnd(_)
trimEnd(text) ==
    IF text # <<>> /\ text[Len(text)] = " "
    THEN trimEnd(SubSeq(text, 1, Len(text) - 1))
    ELSE text

trim(text) == trimEnd(trimStart(text))

\* handleTranscriptionMessage without the test of the trimmed text
handleTranscriptionMessage_showsBlank(w, data) ==
    IF data.hasData /\ data.text # <<>>
    THEN IF data.is_partial
         THEN showPartialTranscription(w, trim(data.text))
         ELSE finalizePartialTranscription(showPartialTranscription(w, trim(data.text)))
    ELSE w

\* handleTranscriptionMessage finalizing the open line without showing the
\* text of the final event in it
handleTranscriptionMessage_finalKeepsText(w, data) ==
    IF data.hasData /\ data.text # <<>> /\ trim(data.text) # <<>>
    THEN IF data.is_partial
         THEN showPartialTranscription(w, trim(data.text))
         ELSE finalizePartialTranscription(w)
    ELSE w

\* WhisperFlowApp.handleTranscriptionMessage, the transport's onMessage:
\* data.data.text must be a non-empty string that is non-empty when trimmed
handleTranscriptionMessage(w, data) ==
    IF data.hasData /\ data.text # <<>> /\ trim(data.text) # <<>>
    THEN IF data.is_partial
         THEN showPartialTranscription(w, trim(data.text))
         ELSE finalizePartialTranscription(showPartialTranscription(w, trim(data.text)))
    ELSE w

\* onmessage treating a frame JSON.parse rejects as the loss of the
\* connection
onmessage_rejectDisconnects(w, frame) ==
    IF frame.json THEN handleTranscriptionMessage(w, frame)
    ELSE [w EXCEPT !.ws.websocket = close(@), !.ws.isConnected = FALSE]

\* the onmessage handler connect() installs: a frame JSON.parse rejects is
\* dropped
onmessage(w, frame) ==
    IF frame.json THEN handleTranscriptionMessage(w, frame) ELSE w

(***************************************************************************)
(* WhisperFlowApp: the capture session                                     *)
(***************************************************************************)
\* AudioProcessor.stopRecording leaving isRecording set
audioStopRecording_keepsFlag(w) == w

\* AudioProcessor.stopRecording
audioStopRecording(w) == [w EXCEPT !.audio.isRecording = FALSE]

\* stopRecording without the test of isRecording
stopRecording_noGuard(w) ==
    showSuccess(
        updateRecordingState(
            audioStopRecording([w EXCEPT !.app.isRecording = FALSE]), FALSE),
        "Recording stopped")

\* WhisperFlowApp.stopRecording
stopRecording(w) ==
    IF ~w.app.isRecording THEN w
    ELSE showSuccess(
            updateRecordingState(
                audioStopRecording([w EXCEPT !.app.isRecording = FALSE]), FALSE),
            "Recording stopped")

\* WhisperFlowApp.handleConnectionChange, the transport's onConnectionChange
handleConnectionChange(w, isConnected) ==
    LET seen == [w EXCEPT !.hist.signals = Append(@, isConnected)]
    IN IF isConnected
       THEN showSuccess(seen, "Connected to Whisper Flow server")
       ELSE LET shown == showError(seen, "Disconnected from Whisper Flow server")
            IN IF shown.app.isRecording THEN stopRecording(shown) ELSE shown

\* WhisperFlowApp.handleWebSocketError, the transport's onError
handleWebSocketError(w) == showError(w, "Connection error")

(***************************************************************************)
(* WhisperWebSocket                                                        *)
(***************************************************************************)
\* a socket the transport stops referencing keeps running while it is live
release(w) ==
    IF Live(w.ws.websocket)
    THEN [w EXCEPT !.env.orphans = @ (+) SetToBag({w.ws.websocket})]
    ELSE w

\* WhisperWebSocket.connect: a new socket replaces this.websocket; the
\* previous socket is neither closed nor are its handlers removed
connect(w) == [release(w) EXCEPT !.ws.websocket = NewWebSocket]

\* attemptReconnect with the backoff left uncapped
attemptReconnect_uncapped(w) ==
    [w EXCEPT !.ws.reconnectAttempts = @ + 1,
              !.env.timers = @ + 1,
              !.hist.delay = w.ws.reconnectDelay,
              !.ws.reconnectDelay = @ * 2]

\* WhisperWebSocket.attemptReconnect: the timer is set with the delay
\* before it is doubled
attemptReconnect(w) ==
    [w EXCEPT !.ws.reconnectAttempts = @ + 1,
              !.env.timers = @ + 1,
              !.hist.delay = w.ws.reconnectDelay,
              !.ws.reconnectDelay = Min(@ * 2, MaxDelay)]

\* onopen resetting the attempt count but not the delay
onopen_keepsDelay(w) ==
    handleConnectionChange(
        [w EXCEPT !.ws.isConnected = TRUE, !.ws.reconnectAttempts = 0],
        TRUE)

\* the onopen handler connect() installs
onopen(w) ==
    handleConnectionChange(
        [w EXCEPT !.ws.isConnected = TRUE,
                  !.ws.reconnectAttempts = 0,
                  !.ws.reconnectDelay = BaseDelay],
        TRUE)

\* onclose retrying only after code 1006
onclose_only1006(w, code) ==
    LET told == handleConnectionChange([w EXCEPT !.ws.isConnected = FALSE], FALSE)
    IN IF code = AbnormalClosure /\ told.ws.reconnectAttempts < maxReconnectAttempts
       THEN attemptReconnect(told)
       ELSE told

\* onclose retrying whatever the number of attempts made
onclose_retriesForever(w, code) ==
    LET told == handleConnectionChange([w EXCEPT !.ws.isConnected = FALSE], FALSE)
    IN IF code # NormalClosure THEN attemptReconnect(told) ELSE told

\* the onclose handler connect() installs
onclose(w, code) ==
    LET told == handleConnectionChange([w EXCEPT !.ws.isConnected = FALSE], FALSE)
    IN IF code # NormalClosure /\ told.ws.reconnectAttempts < maxReconnectAttempts
       THEN attemptReconnect(told)
       ELSE told

\* the onerror handler connect() installs
onerror(w) == handleWebSocketError(w)

\* sendFileForTranscription treating a failed request as a lost connection
sendFileForTranscription_failureDisconnects(w, ok) ==
    IF ok THEN [w EXCEPT !.hist.outcome = "response"]
    ELSE [w EXCEPT !.ws.isConnected = FALSE, !.hist.outcome = "thrown"]

\* WhisperWebSocket.sendFileForTranscription: a POST by fetch to
\* config.getTranscriptionURL(); it returns the parsed response, or logs and
\* rethrows when fetch rejects, the status is not ok or the body is not JSON
sendFileForTranscription(w, ok) ==
    [w EXCEPT !.hist.outcome = IF ok THEN "response" ELSE "thrown"]

\* WhisperWebSocket.checkHealth: a GET by fetch to config.getHealthURL(); it
\* returns the body's text, or logs and rethrows when fetch rejects or the
\* status is not ok
checkHealth(w, ok) ==
    [w EXCEPT !.hist.outcome = IF ok THEN "response" ELSE "thrown"]

\* WhisperWebSocket.disconnect
disconnect(w) ==
    LET closed == IF w.ws.websocket # null
                  THEN [release([w EXCEPT !.ws.websocket = close(@)])
                            EXCEPT !.ws.websocket = null]
                  ELSE w
    IN handleConnectionChange(
           [closed EXCEPT !.ws.isConnected = FALSE, !.ws.reconnectAttempts = 0],
           FALSE)

\* WhisperWebSocket.updateConfig
updateConfig(w) ==
    LET dropped == IF w.ws.isConnected THEN disconnect(w) ELSE w
    IN connect([dropped EXCEPT !.ws.reconnectAttempts = 0,
                               !.ws.reconnectDelay = BaseDelay])

\* sendAudioChunk dropping the chunk when the socket is not OPEN
sendAudioChunk_silentDrop(w) ==
    IF ~w.ws.isConnected \/ w.ws.websocket = null
    THEN [w EXCEPT !.hist.threw = TRUE]
    ELSE IF w.ws.websocket.readyState = "OPEN"
         THEN [w EXCEPT !.hist.tx = @ + 1]
         ELSE w

\* WhisperWebSocket.sendAudioChunk: throws unless connected and OPEN,
\* otherwise hands the chunk to WebSocket.send
sendAudioChunk(w) ==
    IF ~w.ws.isConnected \/ w.ws.websocket = null
    THEN [w EXCEPT !.hist.threw = TRUE]
    ELSE IF w.ws.websocket.readyState = "OPEN"
         THEN [w EXCEPT !.hist.tx = @ + 1]
         ELSE [w EXCEPT !.hist.threw = TRUE]

(***************************************************************************)
(* WhisperFlowApp and AudioProcessor: starting a session, the capture      *)
(* callback, the pacer                                                     *)
(***************************************************************************)
\* AudioProcessor.startRecording: throws when initialize() did not complete
audioStartRecordingThrows(w) == w.audio.initialized # "ready"

\* AudioProcessor.startRecording leaving the pacer's timestamp as it is
audioStartRecording_keepsPacer(w) ==
    [w EXCEPT !.audio.isRecording = TRUE,
              !.hist.captured = <<>>, !.hist.forwarded = <<>>]

audioStartRecording(w) ==
    [w EXCEPT !.audio.isRecording = TRUE, !.audio.lastChunkTime = 0,
              !.hist.captured = <<>>, !.hist.forwarded = <<>>]

\* startRecording without the test of isRecording
startRecording_noGuard(w) ==
    LET flagged == [w EXCEPT !.app.isRecording = TRUE, !.app.chunkCount = 0]
    IN IF audioStartRecordingThrows(flagged) THEN flagged
       ELSE showSuccess(
               clearTranscription(
                   updateRecordingState(audioStartRecording(flagged), TRUE)),
               "Recording started")

\* startRecording leaving the transcript on display
startRecording_keepsTranscript(w) ==
    IF w.app.isRecording THEN w
    ELSE LET flagged == [w EXCEPT !.app.isRecording = TRUE, !.app.chunkCount = 0]
         IN IF audioStartRecordingThrows(flagged) THEN flagged
            ELSE showSuccess(
                    updateRecordingState(audioStartRecording(flagged), TRUE),
                    "Recording started")

\* WhisperFlowApp.startRecording; what it has assigned before
\* audioProcessor.startRecording() throws stays assigned
startRecordingThrows(w) == ~w.app.isRecording /\ audioStartRecordingThrows(w)

startRecording(w) ==
    IF w.app.isRecording THEN w
    ELSE LET flagged == [w EXCEPT !.app.isRecording = TRUE, !.app.chunkCount = 0]
         IN IF audioStartRecordingThrows(flagged) THEN flagged
            ELSE showSuccess(
                    clearTranscription(
                        updateRecordingState(audioStartRecording(flagged), TRUE)),
                    "Recording started")

\* handleRecordButtonClick starting a session whatever the connection
handleRecordButtonClick_noConnectionCheck(w) ==
    IF startRecordingThrows(w)
    THEN showError(startRecording(w), "Failed to start recording")
    ELSE startRecording(w)

\* WhisperFlowApp.handleRecordButtonClick
handleRecordButtonClick(w) ==
    IF ~w.ws.isConnected THEN showError(w, "Not connected to server")
    ELSE IF startRecordingThrows(w)
         THEN showError(startRecording(w), "Failed to start recording")
         ELSE startRecording(w)

\* handleAudioChunk reporting a failed send without stopping the session
handleAudioChunk_keepsRecording(w) ==
    IF w.app.isRecording /\ w.ws.isConnected
    THEN LET sent == sendAudioChunk([w EXCEPT !.app.chunkCount = @ + 1])
         IN IF sent.hist.threw
            THEN showError(sent, "Failed to send audio data")
            ELSE sent
    ELSE w

\* WhisperFlowApp.handleAudioChunk, the processor's onAudioChunk
handleAudioChunk(w) ==
    IF w.app.isRecording /\ w.ws.isConnected
    THEN LET sent == sendAudioChunk([w EXCEPT !.app.chunkCount = @ + 1])
         IN IF sent.hist.threw
            THEN stopRecording(showError(sent, "Failed to send audio data"))
            ELSE sent
    ELSE w

\* the pacer of onaudioprocess: a chunk goes out when at least T_min ms
\* passed since the last one that did
T_min == 10

\* the pacer letting a chunk pass after half the interval
paced_halfInterval(w, now) == now - w.audio.lastChunkTime >= T_min \div 2

paced(w, now) == now - w.audio.lastChunkTime >= T_min

\* onaudioprocess passing on the chunk it passed last instead of the
\* conversion of its frame
onaudioprocess_resendsLast(w, now) ==
    IF ~w.audio.isRecording THEN w
    ELSE IF paced(w, now)
         THEN [handleAudioChunk(
                   [w EXCEPT !.hist.chunks =
                        Append(@, IF w.hist.forwarded # <<>>
                                  THEN w.hist.forwarded[Len(w.hist.forwarded)].chunk
                                  ELSE convertToPCM(w.hist.input))])
                   EXCEPT !.audio.lastChunkTime = now]
         ELSE w

\* scriptProcessor.onaudioprocess at wall-clock time now
onaudioprocess(w, now) ==
    IF ~w.audio.isRecording THEN w
    ELSE IF paced(w, now)
         THEN [handleAudioChunk([w EXCEPT !.hist.chunks =
                                              Append(@, convertToPCM(w.hist.input))])
                   EXCEPT !.audio.lastChunkTime = now]
         ELSE w

\* WhisperFlowApp.handleFileSelected with a file chosen
handleFileSelected(w) ==
    showSuccess(updateUploadButtonState([w EXCEPT !.app.selectedFile = TRUE], TRUE),
                "File selected")

\* handleUploadButtonClick reporting a failure as a notification only
handleUploadButtonClick_failureAsNotification(w, outcome) ==
    IF ~w.app.selectedFile THEN showError(w, "No file selected")
    ELSE LET started == showSuccess(w, "Processing audio file...")
         IN CASE outcome = "decodeError" ->
                    showError(started, "Failed to process file")
              [] outcome = "requestError" ->
                    showError(started, "Failed to process file")
              [] outcome = "noText" ->
                    showUploadResult(started, FALSE, "No transcription result received")
              [] outcome = "text" ->
                    showUploadResult(
                        showUploadResult(started, TRUE, "Transcription"),
                        FALSE, "Failed to process file")

\* WhisperFlowApp.handleUploadButtonClick, by what the decoding and the
\* request come to.  With a text in the response the handler shows the
\* success and then calls this.ui.addTranscriptionLine, which UI does not
\* define: the call throws and the catch clause shows the failure.
handleUploadButtonClick(w, outcome) ==
    IF ~w.app.selectedFile THEN showError(w, "No file selected")
    ELSE LET started == showSuccess(w, "Processing audio file...")
         IN CASE outcome = "decodeError" ->
                    showUploadResult(started, FALSE, "Failed to process file")
              [] outcome = "requestError" ->
                    showUploadResult(started, FALSE, "Failed to process file")
              [] outcome = "noText" ->
                    showUploadResult(started, FALSE, "No transcription result received")
              [] outcome = "text" ->
                    showUploadResult(
                        showUploadResult(started, TRUE, "Transcription"),
                        FALSE, "Failed to process file")

(***************************************************************************)
(* Initial state: the objects as their constructors leave them             *)
(***************************************************************************)
Constructed ==
    [ws |-> [websocket |-> null, isConnected |-> FALSE,
             reconnectAttempts |-> 0, reconnectDelay |-> BaseDelay],
     env |-> [orphans |-> EmptyBag, timers |-> 0, now |-> 0],
     app |-> [isRecording |-> FALSE, chunkCount |-> 0, selectedFile |-> FALSE],
     audio |-> [initialized |-> "pending", isRecording |-> FALSE, lastChunkTime |-> 0],
     ui |-> [lines |-> <<>>, partialBubble |-> 0,
             recordDisabled |-> FALSE, stopDisabled |-> TRUE,
             uploadDisabled |-> TRUE, uploadResult |-> "hidden"],
     hist |-> [op |-> "init", notes |-> <<>>, signals |-> <<>>, tx |-> 0,
               threw |-> FALSE, delay |-> 0, code |-> 0, sock |-> null,
               current |-> FALSE, firedStale |-> FALSE, frame |-> NoFrame,
               outcome |-> "",
               pre |-> [ws |-> [websocket |-> null, isConnected |-> FALSE,
                                reconnectAttempts |-> 0, reconnectDelay |-> BaseDelay],
                        timers |-> 0, isRecording |-> FALSE,
                        app |-> [isRecording |-> FALSE, chunkCount |-> 0,
                                 selectedFile |-> FALSE],
                        audio |-> [initialized |-> "pending", isRecording |-> FALSE,
                                   lastChunkTime |-> 0],
                        ui |-> [lines |-> <<>>, partialBubble |-> 0,
                                recordDisabled |-> FALSE, stopDisabled |-> TRUE,
                                uploadDisabled |-> TRUE, uploadResult |-> "hidden"]],
               input |-> <<>>, chunks |-> <<>>, rates |-> <<0, 0>>,
               stale |-> 0, chain |-> -1, further |-> -1, rejected |-> FALSE,
               captured |-> <<>>, forwarded |-> <<>>]]

Init ==
    /\ ws = Constructed.ws
    /\ env = Constructed.env
    /\ app = Constructed.app
    /\ audio = Constructed.audio
    /\ ui = Constructed.ui
    /\ hist = Constructed.hist

World == [ws |-> ws, env |-> env, app |-> app, audio |-> audio, ui |-> ui, hist |-> hist]

Becomes(w) ==
    /\ ws' = w.ws
    /\ env' = w.env
    /\ app' = w.app
    /\ audio' = w.audio
    /\ ui' = w.ui
    /\ hist' = w.hist

\* sockets and timers alive
Load(w) ==
    BagCardinality(w.env.orphans) + w.env.timers
        + (IF Live(w.ws.websocket) THEN 1 ELSE 0)

\* an explicit call of the transport's API: the timers pending now were set
\* before it
explicit(w, op) ==
    [begin(w, op) EXCEPT !.hist.stale = w.env.timers, !.hist.chain = -1,
                         !.hist.further = -1]

(***************************************************************************)
(* Tasks of the event loop                                                 *)
(***************************************************************************)
\* an explicit connect(), as WhisperFlowApp.init issues
Connect ==
    /\ Load(World) < MaxLoad
    /\ Becomes(connect(explicit(World, "connect")))

\* an explicit disconnect(), as WhisperFlowApp.cleanup issues
Disconnect ==
    \E after \in {disconnect(explicit(World, "disconnect"))} : Becomes(after)

\* a call of sendFileForTranscription(file), whose request succeeds or fails
SendFileForTranscription ==
    \E ok \in BOOLEAN :
        Becomes(sendFileForTranscription(begin(World, "sendFileForTranscription"), ok))

\* a call of checkHealth(), whose request succeeds or fails
CheckHealth ==
    \E ok \in BOOLEAN : Becomes(checkHealth(begin(World, "checkHealth"), ok))

\* the handshake of the socket this.websocket references succeeds
CurrentOpens ==
    /\ ws.websocket.readyState = "CONNECTING"
    /\ Becomes(onopen([event(World, "onopen", ws.websocket, TRUE)
                          EXCEPT !.ws.websocket = [readyState |-> "OPEN", wasOpen |-> TRUE],
                                 !.hist.chain = 0, !.hist.further = -1]))

\* the handshake of a superseded socket succeeds
OrphanOpens ==
    \E sock \in BagToSet(env.orphans) :
        /\ sock.readyState = "CONNECTING"
        /\ Becomes(onopen([event(World, "onopen", sock, FALSE)
                              EXCEPT !.env.orphans = (@ (-) SetToBag({sock}))
                                         (+) SetToBag({[readyState |-> "OPEN", wasOpen |-> TRUE]}),
                                     !.hist.chain = 0, !.hist.further = -1]))

\* one more abnormal closure since the latest handshake
counted(chain, code) ==
    IF chain >= 0 /\ code # NormalClosure
    THEN Min(chain + 1, maxReconnectAttempts + 1)
    ELSE chain

\* the sockets created since the first abnormal closure that no handshake
\* and no explicit call followed: none yet when this closure is the first
retrying(further, code) ==
    IF further < 0 /\ code # NormalClosure THEN 0 ELSE further

\* the socket this.websocket references closes
CurrentCloses ==
    /\ Live(ws.websocket)
    /\ \E code \in CodesOf(ws.websocket) :
          Becomes(onclose([event(World, "onclose", ws.websocket, TRUE)
                              EXCEPT !.ws.websocket = [@ EXCEPT !.readyState = "CLOSED"],
                                     !.hist.code = code,
                                     !.hist.chain = counted(@, code),
                                       !.hist.further = retrying(@, code)],
                          code))

\* a superseded socket closes
OrphanCloses ==
    \E sock \in BagToSet(env.orphans) :
        \E code \in CodesOf(sock) :
            Becomes(onclose([event(World, "onclose", sock, FALSE)
                                EXCEPT !.env.orphans = @ (-) SetToBag({sock}),
                                       !.hist.code = code,
                                       !.hist.chain = counted(@, code),
                                       !.hist.further = retrying(@, code)],
                            code))

\* the socket this.websocket references reports an error
CurrentErrors ==
    /\ Live(ws.websocket)
    /\ Becomes(onerror(event(World, "onerror", ws.websocket, TRUE)))

\* a superseded socket reports an error
OrphanErrors ==
    \E sock \in BagToSet(env.orphans) :
        Becomes(onerror(event(World, "onerror", sock, FALSE)))

\* a reconnect timer fires: setTimeout(() => this.connect(), delay)
TimerFires ==
    /\ env.timers > 0
    /\ \E stale \in BOOLEAN :
          /\ IF stale THEN hist.stale > 0 ELSE env.timers > hist.stale
          /\ Becomes(connect([begin(World, "timer")
                                 EXCEPT !.env.timers = @ - 1,
                                        !.hist.firedStale = stale,
                                        !.hist.stale = IF stale THEN @ - 1 ELSE @,
                                        !.hist.further = IF @ >= 0 THEN @ + 1 ELSE @]))

\* WhisperFlowApp.handleApplyConfigClick: getConfigFromForm throws on an
\* empty hostname or a bad port, otherwise updateConfig runs
handleApplyConfigClick(w, formValid) ==
    IF formValid
    THEN showSuccess(updateConfig(w), "Configuration: Connected")
    ELSE showError(w, "Configuration Error")

\* the user applies the configuration of the form
ApplyConfigClick ==
    \/ /\ Load(World) < MaxLoad
       /\ Becomes(handleApplyConfigClick(explicit(World, "updateConfig"), TRUE))
    \/ Becomes(handleApplyConfigClick(begin(World, "applyConfig"), FALSE))

\* AudioProcessor.initialize completes: the microphone is granted or denied
InitializeAudio ==
    /\ audio.initialized = "pending"
    /\ \E granted \in BOOLEAN :
          Becomes(IF granted
                  THEN [begin(World, "initialize") EXCEPT !.audio.initialized = "ready"]
                  ELSE showError([begin(World, "initialize") EXCEPT !.audio.initialized = "denied"],
                                 "Microphone access denied"))

\* a click on the record button; a disabled button dispatches no click
RecordClick ==
    /\ ~ui.recordDisabled
    /\ Becomes(handleRecordButtonClick(begin(World, "record")))

\* a click on the stop button: handleStopButtonClick
StopClick ==
    /\ ~ui.stopDisabled
    /\ Becomes(stopRecording(begin(World, "stop")))

\* a direct call of startRecording() on window.whisperFlowApp, in whatever
\* state the session is
StartRecording ==
    \E after \in {startRecording(begin(World, "startRecording"))} : Becomes(after)

\* a direct call of stopRecording() on window.whisperFlowApp, in whatever
\* state the session is
StopRecording ==
    \E after \in {stopRecording(begin(World, "stopRecording"))} : Becomes(after)

\* the visibilitychange listener doing nothing
VisibilityHidden_neverStops ==
    \E after \in {begin(World, "hidden")} : Becomes(after)

\* the page becomes hidden: the visibilitychange listener
VisibilityHidden ==
    \E after \in {IF app.isRecording
                   THEN stopRecording(begin(World, "hidden"))
                   ELSE begin(World, "hidden")} : Becomes(after)

\* the readings of Date.now() the capture callbacks make: multiples of half
\* the pacer's interval, never running backwards
Times == {T_min + k * (T_min \div 2) : k \in 0..MaxTicks}

\* a capture callback of the script processor, which exists once
\* initialize() completed
AudioProcess ==
    /\ audio.initialized = "ready"
    /\ app.chunkCount < MaxChunks
    /\ \E now \in Times :
          /\ now >= env.now
          /\ Becomes(onaudioprocess([begin(World, "audio") EXCEPT !.env.now = now], now))

\* the frames a capture callback receives: one sample each
Inputs == {<<Den>>, <<-1>>}

\* the readings of Date.now() the recorded callbacks make: it follows the
\* system clock, which can be set back between two callbacks
Readings == {T_min + k * (T_min \div 2) : k \in 0..(2 * MaxTicks)}

\* a capture callback whose frame, time and chunks are recorded with those
\* of the session's other callbacks
CaptureCallback ==
    /\ audio.initialized = "ready"
    /\ Len(hist.captured) <= MaxChunks
    /\ \E now \in Readings, input \in Inputs :
          LET before == [begin(World, "audio") EXCEPT !.env.now = now,
                                                      !.hist.input = input]
              after == onaudioprocess(before, now)
          IN Becomes(IF audio.isRecording
                     THEN [after EXCEPT
                              !.hist.captured = Append(@, [time |-> now, frame |-> input]),
                              !.hist.forwarded =
                                  @ \o [i \in 1..Len(after.hist.chunks) |->
                                            [time |-> now, chunk |-> after.hist.chunks[i]]]]
                     ELSE after)

\* a direct call of sendAudioChunk, in whatever state the transport is
SendAudioChunk ==
    \E after \in {sendAudioChunk(begin(World, "send"))} : Becomes(after)

\* the frames a socket can deliver: text that is not JSON, JSON without
\* data.text, and transcript events
Texts == UNION {[1..n -> Chars] : n \in 0..MaxLen}

Frames ==
    {[json |-> FALSE, hasData |-> FALSE, text |-> <<>>, is_partial |-> FALSE],
     [json |-> TRUE, hasData |-> FALSE, text |-> <<>>, is_partial |-> FALSE]}
        \cup [json : {TRUE}, hasData : {TRUE}, text : Texts, is_partial : BOOLEAN]

\* the socket this.websocket references delivers a frame
CurrentMessage ==
    /\ ws.websocket.readyState = "OPEN"
    /\ \E frame \in Frames :
          LET after == onmessage([event(World, "onmessage", ws.websocket, TRUE)
                                     EXCEPT !.hist.frame = frame,
                                            !.hist.rejected = @ \/ ~frame.json], frame)
          IN /\ Len(after.ui.lines) <= MaxLines
             /\ Becomes(after)

\* the transcript events of one word: a partial one and a final one
WordEvents == [json : {TRUE}, hasData : {TRUE}, text : {<<"a">>}, is_partial : BOOLEAN]

\* the socket this.websocket references delivers a transcript event of one
\* word
CurrentTranscript ==
    /\ ws.websocket.readyState = "OPEN"
    /\ \E frame \in WordEvents :
          LET after == onmessage([event(World, "onmessage", ws.websocket, TRUE)
                                     EXCEPT !.hist.frame = frame], frame)
          IN /\ Len(after.ui.lines) <= MaxLines
             /\ Becomes(after)

\* a socket the transport no longer references, open or closing after it
\* was open, delivers a transcript event of one word: its onmessage handler
\* is still installed and calls this.onMessage
OrphanTranscript ==
    \E sock \in BagToSet(env.orphans) :
        /\ sock.wasOpen
        /\ sock.readyState \in {"OPEN", "CLOSING"}
        /\ \E frame \in WordEvents :
              LET after == onmessage([event(World, "onmessage", sock, FALSE)
                                         EXCEPT !.hist.frame = frame], frame)
              IN /\ Len(after.ui.lines) <= MaxLines
                 /\ Becomes(after)

\* the user chooses a file
FileSelected ==
    /\ ~app.selectedFile
    /\ Becomes(handleFileSelected(begin(World, "file")))

\* a click on the upload button, with what the decoding and the request
\* come to
UploadOutcomes == {"decodeError", "requestError", "noText", "text"}

UploadClick ==
    /\ ~ui.uploadDisabled
    /\ \E outcome \in UploadOutcomes :
          Becomes(handleUploadButtonClick([begin(World, "upload")
                                              EXCEPT !.hist.outcome = outcome], outcome))

Next ==
    \/ InitializeAudio
    \/ RecordClick
    \/ StopClick
    \/ StopRecording
    \/ VisibilityHidden
    \/ AudioProcess
    \/ SendAudioChunk
    \/ Connect
    \/ Disconnect
    \/ SendFileForTranscription
    \/ CheckHealth
    \/ CurrentOpens
    \/ OrphanOpens
    \/ CurrentCloses
    \/ OrphanCloses
    \/ CurrentErrors
    \/ OrphanErrors
    \/ TimerFires
    \/ ApplyConfigClick

Spec == Init /\ [][Next]_vars

(***************************************************************************)
(* The transcript display: the program once init() has connected, with     *)
(* the frames of the connection, the recording buttons and the uploads     *)
(***************************************************************************)
\* connect() of init() followed by the handshake
Connected ==
    LET connecting == connect(explicit(Constructed, "connect"))
    IN onopen([event(connecting, "onopen", connecting.ws.websocket, TRUE)
                  EXCEPT !.ws.websocket = [readyState |-> "OPEN", wasOpen |-> TRUE],
                         !.hist.chain = 0, !.hist.further = -1])

InitUI ==
    /\ ws = Connected.ws
    /\ env = Connected.env
    /\ app = Connected.app
    /\ audio = Connected.audio
    /\ ui = Connected.ui
    /\ hist = Connected.hist

NextUI ==
    \/ InitializeAudio
    \/ RecordClick
    \/ StopClick
    \/ CurrentMessage
    \/ FileSelected
    \/ UploadClick

SpecUI == InitUI /\ [][NextUI]_vars

(***************************************************************************)
(* The capture session alone: the program once init() has connected, with  *)
(* the record and stop buttons, direct calls of startRecording() and       *)
(* stopRecording(), the page being hidden and the capture callbacks        *)
(***************************************************************************)
NextSession ==
    \/ InitializeAudio
    \/ RecordClick
    \/ StopClick
    \/ StartRecording
    \/ StopRecording
    \/ VisibilityHidden
    \/ CaptureCallback

SpecSession == InitUI /\ [][NextSession]_vars

(***************************************************************************)
(* The transcript across the life of the connection: the program once      *)
(* init() has connected, with the transcript events, the sessions,         *)
(* the closures, the reconnect timers and the changes of configuration     *)
(***************************************************************************)
NextTranscript ==
    \/ InitializeAudio
    \/ RecordClick
    \/ StopClick
    \/ StartRecording
    \/ CurrentTranscript
    \/ OrphanTranscript
    \/ CurrentOpens
    \/ CurrentCloses
    \/ TimerFires
    \/ ApplyConfigClick
    \/ Disconnect

SpecTranscript == InitUI /\ [][NextTranscript]_vars

(***************************************************************************)

(* The transport alone, with timers and close events fair: a pending timer *)
(* fires and a socket that is not closed receives its close event          *)
(***************************************************************************)
NextRetry ==
    \/ Connect
    \/ Disconnect
    \/ ApplyConfigClick
    \/ CurrentOpens
    \/ OrphanOpens
    \/ CurrentCloses
    \/ OrphanCloses
    \/ TimerFires

SpecRetry ==
    /\ Init
    /\ [][NextRetry]_vars
    /\ WF_vars(TimerFires)
    /\ WF_vars(CurrentCloses)
    /\ WF_vars(OrphanCloses)

(***************************************************************************)

(* The conversions of samples alone: an array of samples is drawn, and     *)
(* convertToPCM of the audio processor and of the file processor are       *)
(* applied to it                                                           *)
(***************************************************************************)
Samples == (-MaxAmplitude..MaxAmplitude) \cup {NaN}

Float32Arrays == UNION {[1..n -> Samples] : n \in 0..MaxSamples}

InitPCM ==
    /\ ws = Constructed.ws
    /\ env = Constructed.env
    /\ app = Constructed.app
    /\ audio = Constructed.audio
    /\ ui = Constructed.ui
    /\ \E float32Array \in Float32Arrays :
          hist = [Constructed.hist EXCEPT !.input = float32Array]

\* AudioProcessor.convertToPCM applied to the array
ConvertToPCM ==
    \E after \in {[World EXCEPT !.hist.op = "convertToPCM",
                                !.hist.chunks = <<convertToPCM(hist.input)>>]} :
        Becomes(after)

\* FileAudioProcessor.convertToPCM applied to the array
FileConvertToPCM ==
    \E after \in {[World EXCEPT !.hist.op = "fileConvertToPCM",
                                !.hist.chunks = <<fileConvertToPCM(hist.input)>>]} :
        Becomes(after)

\* the sample rates of decoded files and of the target
Rates == {8000, 16000, 32000, 44100, 48000}

\* FileAudioProcessor.resampleAudio applied to the array
ResampleAudio ==
    \E originalSampleRate \in Rates, targetSampleRate \in Rates :
        Becomes([World EXCEPT
                    !.hist.op = "resampleAudio",
                    !.hist.rates = <<originalSampleRate, targetSampleRate>>,
                    !.hist.chunks = <<resampleAudio(hist.input, originalSampleRate,
                                                    targetSampleRate)>>])

NextPCM ==
    \/ ConvertToPCM
    \/ FileConvertToPCM
    \/ ResampleAudio

SpecPCM == InitPCM /\ [][NextPCM]_vars

(***************************************************************************)
(* Properties of the transport and the capture session, under Spec         *)
(***************************************************************************)
\* the delays the reconnect policy is documented to produce
DelaySequence == <<1000, 2000, 4000, 8000, 10000>>

\* the sockets in the connecting or open state
Connections ==
    (IF ws.websocket.readyState \in {"CONNECTING", "OPEN"} THEN 1 ELSE 0)
        + BagCardinality([sock \in {x \in BagToSet(env.orphans) :
                                        x.readyState \in {"CONNECTING", "OPEN"}}
                              |-> env.orphans[sock]])

\* C1: after a handshake, with no explicit connect(), disconnect() or
\* updateConfig() in between, the k-th abnormal closure sets the reconnect
\* timer with the k-th delay of 1000, 2000, 4000, 8000, 10000 ms, and the
\* 6th sets no timer.
C1_BackoffSequence ==
    (hist.op = "onclose" /\ hist.code # NormalClosure /\ hist.chain >= 1) =>
        IF hist.chain <= Len(DelaySequence)
        THEN hist.delay = DelaySequence[hist.chain] /\ env.timers = hist.pre.timers + 1
        ELSE hist.delay = 0 /\ env.timers = hist.pre.timers

\* the 6th abnormal closure in a row has happened and set no timer
C1_Witness ==
    /\ hist.op = "onclose"
    /\ hist.chain = Len(DelaySequence) + 1
    /\ hist.pre.ws.reconnectDelay = MaxDelay
    /\ hist.delay = 0

\* C2: when onopen has run, reconnectAttempts is 0 and reconnectDelay is
\* the base 1000 ms, whatever they were before.
C2_OpenResetsPolicy ==
    hist.op = "onopen" => ws.reconnectAttempts = 0 /\ ws.reconnectDelay = 1000

\* a handshake succeeded after retries had raised the count and the delay
C2_Witness ==
    /\ hist.op = "onopen"
    /\ hist.pre.ws.reconnectAttempts > 1
    /\ hist.pre.ws.reconnectDelay > 1000
    /\ ws.reconnectAttempts = 0

\* C3: an explicit disconnect() leaves the transport disconnected, and the
\* close event of the socket it closed sets no reconnect timer.
C3_DisconnectNeverReconnects ==
    /\ hist.op = "disconnect" => ~ws.isConnected /\ ws.websocket = null
    /\ (hist.op = "onclose" /\ hist.sock.readyState = "CLOSING") =>
            hist.delay = 0 /\ env.timers = hist.pre.timers

\* C4: no reconnect timer that was pending at an explicit connect(),
\* disconnect() or updateConfig() fires a connect() afterwards.
C4_StaleTimerNeverFires ==
    hist.op = "timer" => ~hist.firedStale

\* C5: at most one socket of the transport is connecting or open.
C5_OneConnection ==
    Connections <= 1

\* C6: a close event sets a reconnect timer exactly when its code is not
\* 1000 and reconnectAttempts was below maxReconnectAttempts.
C6_CodeDecidesReconnect ==
    hist.op = "onclose" =>
        LET retried == hist.delay # 0 /\ env.timers = hist.pre.timers + 1
                         /\ ws.reconnectAttempts = hist.pre.ws.reconnectAttempts + 1
            ignored == hist.delay = 0 /\ env.timers = hist.pre.timers
                         /\ ws.reconnectAttempts = hist.pre.ws.reconnectAttempts
        IN IF hist.code # 1000 /\ hist.pre.ws.reconnectAttempts < 5
           THEN retried
           ELSE ignored

\* a server's closure with code 1001 has been retried, as one that the
\* client did not start
C6_Witness ==
    /\ hist.op = "onclose"
    /\ hist.code = GoingAway
    /\ hist.sock.readyState = "OPEN"
    /\ hist.delay # 0

\* the attempts are exhausted: the socket the transport holds has just
\* closed abnormally with reconnectAttempts at maxReconnectAttempts
Failed ==
    /\ hist.op = "onclose"
    /\ hist.current
    /\ hist.code # NormalClosure
    /\ hist.pre.ws.reconnectAttempts = maxReconnectAttempts

\* C7: once the attempts are exhausted no reconnect timer is pending and
\* no socket is left to connect; updateConfig() out of that state resets
\* the policy to (0, 1000 ms) and starts a connection attempt.
C7_FailedIsTerminal ==
    /\ Failed => env.timers = 0 /\ Connections = 0
    /\ hist.op = "updateConfig" =>
            /\ ws.reconnectAttempts = 0
            /\ ws.reconnectDelay = BaseDelay
            /\ ws.websocket = NewWebSocket

\* C8: sendAudioChunk throws and hands nothing to the socket when
\* isConnected is false, the socket is null or the socket is not OPEN, and
\* returns normally only having handed the chunk to the socket.
C8_SendOnlyWhenConnected ==
    hist.op = "send" =>
        /\ (~ws.isConnected \/ ws.websocket = null \/ ws.websocket.readyState # "OPEN")
                => hist.threw /\ hist.tx = 0
        /\ ~hist.threw => hist.tx = 1

\* sendAudioChunk was called with isConnected true on a socket that is not
\* OPEN, and threw
C8_Witness ==
    /\ hist.op = "send"
    /\ ws.isConnected
    /\ ws.websocket.readyState = "CONNECTING"
    /\ hist.threw

\* C9: a capture callback calls sendAudioChunk only when the app was
\* recording and the transport connected, and a send that throws leaves
\* the app and the audio processor not recording.
C9_CaptureGatesAndStops ==
    hist.op = "audio" =>
        /\ (hist.tx > 0 \/ hist.threw) => hist.pre.isRecording /\ hist.pre.ws.isConnected
        /\ hist.threw => ~app.isRecording /\ ~audio.isRecording /\ ~ui.recordDisabled

\* a send of a capture callback threw and the session was stopped
C9_Witness ==
    /\ hist.op = "audio"
    /\ hist.threw
    /\ hist.pre.isRecording
    /\ ~app.isRecording

\* the error notifications the task showed
ErrorsShown == {i \in DOMAIN hist.notes : hist.notes[i][1] = "error"}

\* C16: the task of an abnormal closure or of a socket error that finds
\* reconnectAttempts below maxReconnectAttempts shows no error
\* notification.
C16_ErrorsAbsorbed ==
    (/\ hist.op \in {"onclose", "onerror"}
     /\ hist.op = "onclose" => hist.code # NormalClosure
     /\ hist.pre.ws.reconnectAttempts < maxReconnectAttempts)
        => ErrorsShown = {}

\* what onclose passes to onConnectionChange when it sets a reconnect timer
RetrySignal == <<FALSE>>

\* C17: the closure that exhausts the attempts passes the consumer
\* something else than the closures that are retried do.
C17_FailedIsSignalled ==
    /\ (hist.op = "onclose" /\ hist.delay # 0) => hist.signals = RetrySignal
    /\ Failed => hist.signals # RetrySignal

\* the task left the objects of the program as it found them
Untouched ==
    /\ ws = hist.pre.ws
    /\ app = hist.pre.app
    /\ audio = hist.pre.audio
    /\ ui = hist.pre.ui
    /\ env.timers = hist.pre.timers

\* the tasks that can call stopRecording(): the direct call, the stop
\* button, the loss of the connection (a close event, disconnect(),
\* updateConfig()), a send that fails in a capture callback, the page
\* becoming hidden
StopTasks == {"stopRecording", "stop", "onclose", "disconnect", "updateConfig",
              "audio", "hidden"}

\* what the task showed when stopRecording() ran to its end
StopNotes == {i \in DOMAIN hist.notes : hist.notes[i] = <<"success", "Recording stopped">>}

\* C19: a task that can call stopRecording() and finds isRecording false
\* leaves the session, the audio processor's flag and the buttons as they
\* were and shows no 'Recording stopped'; the direct call and the stop
\* button change nothing at all and show nothing.
C19_StopWhileIdleIsNoOp ==
    (hist.op \in StopTasks /\ ~hist.pre.app.isRecording) =>
        /\ app = hist.pre.app
        /\ audio.isRecording = hist.pre.audio.isRecording
        /\ ui = hist.pre.ui
        /\ StopNotes = {}
        /\ hist.op \in {"stopRecording", "stop"} => Untouched /\ hist.notes = <<>>

\* stopRecording() was called after a session had ended, and the stop
\* button stayed disabled and the chunk counter as it was
C19_Witness ==
    /\ hist.op = "stopRecording"
    /\ ~hist.pre.app.isRecording
    /\ hist.pre.app.chunkCount > 0
    /\ app.chunkCount = hist.pre.app.chunkCount
    /\ ui.stopDisabled /\ ~ui.recordDisabled
    /\ hist.notes = <<>>

\* the tasks that call stopRecording() on the user's behalf
ExplicitStops == {"stopRecording", "stop", "hidden"}

\* C20: once stopRecording() has returned, both isRecording flags are
\* false, they stay false until startRecording() runs, and a capture
\* callback that finds them false hands no chunk to the transport and
\* calls no sendAudioChunk.
C20_StopHaltsChunks ==
    /\ hist.op \in ExplicitStops => ~app.isRecording /\ ~audio.isRecording
    /\ ~app.isRecording => ~audio.isRecording
    /\ (~hist.pre.app.isRecording /\ hist.op # "record") => ~app.isRecording
    /\ (hist.op = "audio" /\ ~hist.pre.app.isRecording) =>
            /\ hist.tx = 0 /\ ~hist.threw
            /\ app.chunkCount = hist.pre.app.chunkCount
            /\ audio.lastChunkTime = hist.pre.audio.lastChunkTime

\* after a session that sent a chunk was stopped, a capture callback ran
\* at a time the pacer would let a chunk pass, on an open connection, and
\* handed nothing to the socket
C20_Witness ==
    /\ hist.op = "audio"
    /\ ~hist.pre.app.isRecording
    /\ hist.pre.app.chunkCount > 0
    /\ ws.isConnected /\ ws.websocket.readyState = "OPEN"
    /\ env.now - audio.lastChunkTime >= T_min
    /\ hist.tx = 0

\* C21: when the page becomes hidden during a session, isRecording is false
\* afterwards in the app and in the audio processor and the buttons are
\* those of an idle session; when no session is active nothing changes.
C21_HiddenStopsSession ==
    hist.op = "hidden" =>
        IF hist.pre.app.isRecording
        THEN /\ ~app.isRecording /\ ~audio.isRecording
             /\ ~ui.recordDisabled /\ ui.stopDisabled
             /\ StopNotes # {}
        ELSE Untouched /\ hist.notes = <<>>

\* the page became hidden while the audio processor was recording and had
\* sent a chunk, and the session was stopped
C21_Witness ==
    /\ hist.op = "hidden"
    /\ hist.pre.app.isRecording /\ hist.pre.audio.isRecording
    /\ hist.pre.app.chunkCount > 0
    /\ ~app.isRecording /\ ~audio.isRecording

\* the task was one of the two request/response calls
NonStreaming == hist.op \in {"sendFileForTranscription", "checkHealth"}

\* C28: sendFileForTranscription and checkHealth, whether their request
\* succeeds or fails and whatever the connection state they are called in,
\* leave isConnected, the current socket, reconnectAttempts, reconnectDelay
\* and the pending reconnect timers as they were.
C28_NonStreamingLeavesTransport ==
    NonStreaming =>
        /\ hist.outcome \in {"response", "thrown"}
        /\ ws.isConnected = hist.pre.ws.isConnected
        /\ ws.websocket = hist.pre.ws.websocket
        /\ ws.reconnectAttempts = hist.pre.ws.reconnectAttempts
        /\ ws.reconnectDelay = hist.pre.ws.reconnectDelay
        /\ env.timers = hist.pre.timers

\* a file request failed while the transport was waiting to reconnect: not
\* connected, a retry counted and its timer pending
C28_Witness ==
    /\ hist.op = "sendFileForTranscription"
    /\ hist.outcome = "thrown"
    /\ ~ws.isConnected
    /\ ws.reconnectAttempts > 0
    /\ env.timers > 0


\* C31: after every handler, a capture session in progress implies a
\* connected transport: app.isRecording implies websocket.isConnected.
C31_RecordingImpliesConnected == app.isRecording => ws.isConnected

\* the closure of a superseded socket found a session recording, cleared
\* isConnected and stopped the session
C31_Witness ==
    /\ hist.op = "onclose"
    /\ ~hist.current
    /\ hist.pre.app.isRecording
    /\ hist.pre.ws.isConnected
    /\ ~ws.isConnected
    /\ ~app.isRecording


\* C33: isConnected is true exactly when the socket the transport holds is
\* not null and OPEN, and an open or close event of a superseded socket
\* leaves isConnected as it was.
C33_ConnectedIffCurrentOpen ==
    /\ ws.isConnected <=> (ws.websocket # null /\ ws.websocket.readyState = "OPEN")
    /\ (hist.op \in {"onopen", "onclose"} /\ ~hist.current) =>
           ws.isConnected = hist.pre.ws.isConnected


\* the delays the backoff passes through
Delays == {BaseDelay, 2 * BaseDelay, 4 * BaseDelay, 8 * BaseDelay, MaxDelay}

\* C34: in every state reconnectAttempts is between 0 and
\* maxReconnectAttempts and reconnectDelay is one of 1000, 2000, 4000, 8000
\* and 10000 ms.
C34_PolicyInRange ==
    /\ ws.reconnectAttempts \in 0..maxReconnectAttempts
    /\ ws.reconnectDelay \in Delays

\* the closure of a superseded socket made the fifth attempt, the delay
\* being at its cap
C34_Witness ==
    /\ hist.op = "onclose"
    /\ ~hist.current
    /\ ws.reconnectAttempts = maxReconnectAttempts
    /\ ws.reconnectDelay = MaxDelay


RECURSIVE Doubled(_)
\* 2 to the power n of base delays
Doubled(n) == IF n = 0 THEN BaseDelay ELSE 2 * Doubled(n - 1)

\* C35: in every state reconnectDelay = min(1000 * 2^reconnectAttempts,
\* 10000) ms, so with reconnectAttempts at 0 the next reconnect is scheduled
\* with the base delay.
C35_DelayFollowsAttempts ==
    ws.reconnectDelay = Min(Doubled(ws.reconnectAttempts), MaxDelay)


\* a socket of the transport, current or superseded, is connecting or open
SomeSocketUp ==
    \/ ws.websocket.readyState \in {"CONNECTING", "OPEN"}
    \/ \E sock \in BagToSet(env.orphans) : sock.readyState \in {"CONNECTING", "OPEN"}

\* C36: at most one reconnect timer is pending, none is pending while a
\* socket is connecting or open, and a task sets a timer only when it is the
\* close event of the socket the transport holds.
C36_OneTimerNoSocket ==
    /\ env.timers <= 1
    /\ env.timers > 0 => ~SomeSocketUp
    /\ hist.delay > 0 => (hist.op = "onclose" /\ hist.current)


\* C37: a task notifies the consumer at most once; onConnectionChange(true)
\* is called by a handshake only, and onConnectionChange(false) only by a
\* task that found the transport connected, so a disconnect() of a
\* connected transport is followed by no second disconnected notification
\* and a transport that was not connected gives none.
C37_NotificationsFollowState ==
    /\ Len(hist.signals) <= 1
    /\ \A i \in DOMAIN hist.signals :
           IF hist.signals[i] THEN hist.op = "onopen" ELSE hist.pre.ws.isConnected


\* the task showed the success of handleApplyConfigClick
ConfigSuccessShown ==
    \E i \in DOMAIN hist.notes : hist.notes[i] = <<"success", "Configuration: Connected">>

\* C39: handleApplyConfigClick shows its "Connected to host:port" success
\* only in a state where the transport is connected, its socket open.
C39_ConfigSuccessMeansConnected ==
    ConfigSuccessShown => (ws.isConnected /\ ws.websocket.readyState = "OPEN")


(***************************************************************************)
(* Properties of the transcript display, under SpecUI                      *)
(***************************************************************************)
PartialLines == {i \in DOMAIN ui.lines : ui.lines[i].className = "partial"}

\* C10: at most one transcript line is partial, and it is the line
\* partialBubble references.
C10_OnePartialLine ==
    /\ Cardinality(PartialLines) <= 1
    /\ PartialLines = IF ui.partialBubble = 0 THEN {} ELSE {ui.partialBubble}

\* a partial line is open below a final line, after an upload with a text
\* in its response
C10_Witness ==
    /\ Len(ui.lines) = 2
    /\ ui.partialBubble = 2
    /\ ui.lines[1].className = "final"
    /\ ui.lines[2].className = "partial"
    /\ ui.uploadResult = "error"
    /\ hist.op = "onmessage"

\* the lines that were final when the task began
FinalBefore == {i \in DOMAIN hist.pre.ui.lines : hist.pre.ui.lines[i].className = "final"}

\* the task was a click on the record button that started a session, which
\* clears the display
Cleared == hist.op = "record" /\ ~hist.pre.app.isRecording /\ app.isRecording /\ ui.lines = <<>>

\* C11: a line that was final when a task began is, after the task, at the
\* same place with the same text and still final, unless the task started
\* a session and so cleared the display.
C11_FinalLineImmutable ==
    Cleared \/ \A i \in FinalBefore :
                   i \in DOMAIN ui.lines /\ ui.lines[i] = hist.pre.ui.lines[i]

\* a final event with another text arrived below a final line and left
\* that line as it was
C11_Witness ==
    /\ hist.op = "onmessage"
    /\ FinalBefore = {1}
    /\ hist.pre.ui.partialBubble = 0
    /\ hist.frame.hasData /\ ~hist.frame.is_partial
    /\ trim(hist.frame.text) # <<>>
    /\ trim(hist.frame.text) # hist.pre.ui.lines[1].text
    /\ Len(ui.lines) = 2
    /\ ui.lines[1] = hist.pre.ui.lines[1]

\* the task was the delivery of a transcript event whose text is not empty
\* or white space only
TextEvent ==
    /\ hist.op = "onmessage"
    /\ hist.frame.json /\ hist.frame.hasData
    /\ trim(hist.frame.text) # <<>>

\* the display after a partial event that shows text: a new partial line
\* below the others when none was open, the open line rewritten otherwise
PartialShown(text) ==
    IF hist.pre.ui.partialBubble = 0
    THEN /\ ui.lines = Append(hist.pre.ui.lines, [text |-> text, className |-> "partial"])
         /\ ui.partialBubble = Len(hist.pre.ui.lines) + 1
    ELSE /\ ui.lines = [hist.pre.ui.lines EXCEPT ![hist.pre.ui.partialBubble].text = text]
         /\ ui.partialBubble = hist.pre.ui.partialBubble

\* C12 as stated: a partial event with a non-empty text appends one partial
\* line with the event's text when no line is open, and otherwise replaces
\* the open line's text by the event's text, the number of lines unchanged.
C12_PartialShowsEventText ==
    (TextEvent /\ hist.frame.is_partial) => PartialShown(hist.frame.text)

\* C12 amended: the text shown is the event's text with the white space at
\* its ends removed.
C12_PartialShowsTrimmedText ==
    (TextEvent /\ hist.frame.is_partial) => PartialShown(trim(hist.frame.text))

\* a partial event whose text begins with a space replaced the text of the
\* open line by another one
C12_Witness ==
    /\ TextEvent /\ hist.frame.is_partial
    /\ Head(hist.frame.text) = " "
    /\ hist.pre.ui.partialBubble # 0
    /\ hist.pre.ui.lines[hist.pre.ui.partialBubble].text # trim(hist.frame.text)
    /\ Len(ui.lines) = Len(hist.pre.ui.lines)
    /\ ui.lines[ui.partialBubble].text = trim(hist.frame.text)

\* the display after a final event that shows text: the open line, or a
\* new line below the others when none was open, holds text and is final,
\* and no line is open
FinalShown(text) ==
    /\ ui.lines = IF hist.pre.ui.partialBubble = 0
                  THEN Append(hist.pre.ui.lines, [text |-> text, className |-> "final"])
                  ELSE [hist.pre.ui.lines EXCEPT ![hist.pre.ui.partialBubble] =
                                                     [text |-> text, className |-> "final"]]
    /\ ui.partialBubble = 0

\* transcript events as the frames that carry them
partial(text) == [json |-> TRUE, hasData |-> TRUE, text |-> text, is_partial |-> TRUE]
final(text) == [json |-> TRUE, hasData |-> TRUE, text |-> text, is_partial |-> FALSE]

\* the frames delivered one after the other
RECURSIVE Delivered(_, _)
Delivered(w, frames) ==
    IF frames = <<>> THEN w
    ELSE Delivered(onmessage(w, Head(frames)), Tail(frames))

\* partial("a"), partial("ab"), final("abc") on an empty display leave one
\* final line "abc" and no open line; partial("x") then opens a second line
\* and leaves the first as it is
ExampleHolds ==
    LET shown == Delivered(Connected, <<partial(<<"a">>), partial(<<"a", "b">>),
                                        final(<<"a", "b", "c">>)>>)
        next == onmessage(shown, partial(<<"x">>))
    IN /\ shown.ui.lines = <<[text |-> <<"a", "b", "c">>, className |-> "final"]>>
       /\ shown.ui.partialBubble = 0
       /\ next.ui.lines = <<[text |-> <<"a", "b", "c">>, className |-> "final"],
                            [text |-> <<"x">>, className |-> "partial"]>>
       /\ next.ui.partialBubble = 2

\* C13 as stated: a final event with a non-empty text sets the open line's
\* text (a new line's, when none is open) to the event's text, makes that
\* line final and leaves no line open; and the example sequence gives the
\* lines it is said to give.
C13_FinalShowsEventText ==
    /\ (TextEvent /\ ~hist.frame.is_partial) => FinalShown(hist.frame.text)
    /\ ExampleHolds

\* C13 amended: the text the line gets is the event's text with the white
\* space at its ends removed.
C13_FinalShowsTrimmedText ==
    /\ (TextEvent /\ ~hist.frame.is_partial) => FinalShown(trim(hist.frame.text))
    /\ ExampleHolds

\* a final event whose text ends with a space closed the open line, which
\* held another text, below a final line
C13_Witness ==
    /\ TextEvent /\ ~hist.frame.is_partial
    /\ hist.frame.text[Len(hist.frame.text)] = " "
    /\ hist.pre.ui.partialBubble = 2
    /\ hist.pre.ui.lines[2].text # trim(hist.frame.text)
    /\ ui.lines[2] = [text |-> trim(hist.frame.text), className |-> "final"]
    /\ ui.lines[1] = hist.pre.ui.lines[1]
    /\ ui.partialBubble = 0

\* the task was the delivery of a transcript event whose text is empty or
\* white space only
BlankEvent ==
    /\ hist.op = "onmessage"
    /\ hist.frame.json /\ hist.frame.hasData
    /\ trim(hist.frame.text) = <<>>

\* C14: an event whose text is empty or white space only, partial or
\* final, changes nothing: the lines, their texts and states and the open
\* line are as before.
C14_BlankEventIgnored ==
    BlankEvent => Untouched /\ hist.notes = <<>>

\* a final event of white space only arrived while a line was open, and
\* the line is still open
C14_Witness ==
    /\ BlankEvent
    /\ hist.frame.text # <<>>
    /\ ~hist.frame.is_partial
    /\ hist.pre.ui.partialBubble # 0
    /\ ui.partialBubble = hist.pre.ui.partialBubble
    /\ ui.lines[ui.partialBubble].className = "partial"

\* the task was the delivery of a frame that is not JSON
MalformedFrame == hist.op = "onmessage" /\ ~hist.frame.json

\* C15: a frame that is not JSON changes neither the connection state, nor
\* the reconnect policy, nor the transcript, and leaves the socket open;
\* the transcript events the connection delivers after it are shown as any
\* other.
C15_MalformedFrameDropped ==
    /\ MalformedFrame =>
            /\ Untouched
            /\ ws.websocket = hist.sock /\ ws.websocket.readyState = "OPEN"
            /\ ws.isConnected
            /\ hist.notes = <<>> /\ hist.signals = <<>> /\ hist.delay = 0
    /\ (hist.rejected /\ TextEvent) =>
            IF hist.frame.is_partial
            THEN PartialShown(trim(hist.frame.text))
            ELSE FinalShown(trim(hist.frame.text))

\* after a frame that is not JSON was dropped, the same connection
\* delivered a final event, which closed the open line with its text
C15_Witness ==
    /\ hist.rejected
    /\ TextEvent /\ ~hist.frame.is_partial
    /\ hist.pre.ui.partialBubble # 0
    /\ ui.lines # hist.pre.ui.lines
    /\ ui.partialBubble = 0
    /\ ws.isConnected

\* the task was a click on the upload button whose file could not be
\* decoded or converted, or whose request failed
UploadFailed ==
    /\ hist.op = "upload"
    /\ hist.pre.app.selectedFile
    /\ hist.outcome \in {"decodeError", "requestError"}

\* C27: an upload whose decoding, conversion or request fails shows a
\* failure upload result and leaves the transport (connection state,
\* socket, reconnect policy, timers), the recording session and the
\* transcript lines as they were.
C27_UploadFailureIsLocal ==
    UploadFailed =>
        /\ ui.uploadResult = "error"
        /\ ws = hist.pre.ws
        /\ env.timers = hist.pre.timers
        /\ app = hist.pre.app
        /\ audio = hist.pre.audio
        /\ ui.lines = hist.pre.ui.lines
        /\ ui.partialBubble = hist.pre.ui.partialBubble

\* the first upload of a file that cannot be decoded, while a session is
\* recording and a partial line is open
C27_Witness ==
    /\ UploadFailed
    /\ hist.outcome = "decodeError"
    /\ hist.pre.ui.uploadResult = "hidden"
    /\ ui.uploadResult = "error"
    /\ app.isRecording
    /\ ui.partialBubble = 1


\* C29: an upload whose request answers with a non-empty text is reported
\* as a success, and a final line is added to the transcript display.
C29_UploadSuccessShown ==
    (hist.op = "upload" /\ hist.pre.app.selectedFile /\ hist.outcome = "text") =>
        /\ ui.uploadResult = "success"
        /\ Len(ui.lines) = Len(hist.pre.ui.lines) + 1
        /\ ui.lines[Len(ui.lines)].className = "final"


(***************************************************************************)
(* Properties of the capture session, under SpecSession                    *)
(***************************************************************************)
\* the task called startRecording() while a session was active
StartedWhileActive ==
    /\ hist.pre.app.isRecording
    /\ \/ hist.op = "startRecording"
       \/ hist.op = "record" /\ hist.pre.ws.isConnected

\* a display with a final line and an open line, during a session
Showing ==
    [World EXCEPT !.app.isRecording = TRUE,
                  !.ui.lines = <<[text |-> <<"a">>, className |-> "final"],
                                 [text |-> <<"a", "b">>, className |-> "partial"]>>,
                  !.ui.partialBubble = 2]

\* C18: startRecording() called while isRecording is true changes nothing
\* and shows nothing: the transcript, the chunk counter, the pacer's
\* timestamp and the recording state are as before.
C18_StartWhileActiveIsNoOp ==
    /\ StartedWhileActive => Untouched /\ hist.notes = <<>>
    /\ startRecording(Showing) = Showing

\* startRecording() was called during a session that had sent a chunk, and
\* the counter and the pacer's timestamp are what they were
C18_Witness ==
    /\ hist.op = "startRecording"
    /\ hist.pre.app.isRecording /\ hist.pre.audio.isRecording
    /\ hist.pre.app.chunkCount > 0
    /\ hist.pre.audio.lastChunkTime > 0
    /\ app.chunkCount = hist.pre.app.chunkCount
    /\ audio.lastChunkTime = hist.pre.audio.lastChunkTime
    /\ app.isRecording

\* C22: within a session, the times of two chunks passed to onAudioChunk
\* one after the other differ by at least T_min.
C22_PacerBoundsRate ==
    \A i \in 1..(Len(hist.forwarded) - 1) :
        hist.forwarded[i + 1].time - hist.forwarded[i].time >= 10

\* a session passed two chunks T_min apart and dropped the frame of a
\* callback between them
C22_Witness ==
    /\ Len(hist.forwarded) = 2
    /\ Len(hist.captured) = 3
    /\ hist.forwarded[2].time - hist.forwarded[1].time = T_min
    /\ hist.captured[2].time > hist.forwarded[1].time
    /\ hist.captured[2].time < hist.forwarded[2].time

\* every callback of the session arrived at least T_min after the one
\* before it
Cadence ==
    \A i \in 1..(Len(hist.captured) - 1) :
        hist.captured[i + 1].time - hist.captured[i].time >= 10

\* C23: when every callback of a session arrived at least T_min after the
\* previous one, the chunks passed to onAudioChunk are the conversions of
\* the session's frames, one per callback, in the order of the callbacks
\* and from the first callback after startRecording() on.
C23_CadenceLosesNothing ==
    Cadence =>
        hist.forwarded = [i \in 1..Len(hist.captured) |->
                             [time |-> hist.captured[i].time,
                              chunk |-> convertToPCM(hist.captured[i].frame)]]

\* three callbacks, the second exactly T_min after the first and with
\* another frame, were all forwarded
C23_Witness ==
    /\ Cadence
    /\ Len(hist.captured) = 3
    /\ hist.captured[1].frame # hist.captured[2].frame
    /\ hist.captured[2].time - hist.captured[1].time = T_min
    /\ Len(hist.forwarded) = 3
    /\ hist.forwarded[2].chunk = convertToPCM(hist.captured[2].frame)

\* the chunks the session had passed on before the task
ForwardedBefore ==
    SubSeq(hist.forwarded, 1, Len(hist.forwarded) - Len(hist.chunks))

\* the task was a callback of the session that arrived less than T_min
\* after the last chunk the session passed on
EarlyCallback ==
    /\ hist.op = "audio"
    /\ hist.pre.audio.isRecording
    /\ ForwardedBefore # <<>>
    /\ env.now - ForwardedBefore[Len(ForwardedBefore)].time < 10

\* C24: a callback that arrives less than T_min after the last chunk
\* passed on passes no chunk and leaves nothing of its frame in the audio
\* processor or the app, and the chunks a callback passes on are only the
\* conversion of its own frame, so that no frame is passed on later.
C24_EarlyFrameDiscarded ==
    /\ EarlyCallback =>
            /\ hist.chunks = <<>> /\ hist.tx = 0
            /\ audio = hist.pre.audio /\ app = hist.pre.app
    /\ hist.op = "audio" => hist.chunks \in {<<>>, <<convertToPCM(hist.input)>>}
    /\ \A j \in DOMAIN hist.forwarded :
           \E k \in DOMAIN hist.captured :
               /\ k >= j
               /\ hist.captured[k].time = hist.forwarded[j].time
               /\ hist.forwarded[j].chunk = convertToPCM(hist.captured[k].frame)

\* the frame of the second callback was dropped, and the chunk passed on
\* by the third is the conversion of the third's frame, not of the second's
C24_Witness ==
    /\ Len(hist.captured) = 3
    /\ Len(hist.forwarded) = 2
    /\ hist.captured[2].time - hist.captured[1].time < T_min
    /\ hist.captured[2].time - hist.captured[1].time > 0
    /\ hist.captured[3].frame # hist.captured[2].frame
    /\ hist.forwarded[2].time = hist.captured[3].time
    /\ hist.forwarded[2].chunk = convertToPCM(hist.captured[3].frame)
    /\ hist.forwarded[2].chunk # convertToPCM(hist.captured[2].frame)

\* C32: after every handler the app's session flag and the audio
\* processor's flag agree, so a start that fails because audio was never
\* initialised leaves the app not recording.
C32_FlagsAgree == app.isRecording = audio.isRecording

(***************************************************************************)
(* Properties of the conversions of samples, under SpecPCM                 *)
(***************************************************************************)
\* C25: convertToPCM gives as many values as it is given samples, each in
\* -32768..32767, with 0.0 giving 0, 1.0 giving 32767, -1.0 giving -32768
\* and a sample outside [-1, 1] what the nearer of 1.0 and -1.0 gives; the
\* audio processor's and the file processor's convertToPCM give the same.
C25_ConvertToPCM ==
    hist.op \in {"convertToPCM", "fileConvertToPCM"} =>
        LET out == hist.chunks[1]
        IN /\ Len(out) = Len(hist.input)
           /\ \A i \in DOMAIN out :
                  /\ out[i] \in -32768..32767
                  /\ hist.input[i] = 0 => out[i] = 0
                  /\ hist.input[i] = Den => out[i] = 32767
                  /\ hist.input[i] = -Den => out[i] = -32768
                  /\ (hist.input[i] # NaN /\ hist.input[i] > Den) => out[i] = 32767
                  /\ (hist.input[i] # NaN /\ hist.input[i] < -Den) => out[i] = -32768
           /\ convertToPCM(hist.input) = fileConvertToPCM(hist.input)

\* the file processor converted 2.0 and -1.0 to 32767 and -32768
C25_Witness ==
    /\ hist.op = "fileConvertToPCM"
    /\ hist.input = <<2 * Den, -Den>>
    /\ hist.chunks = << <<32767, -32768>> >>

\* the index in the input of element i (from 0) of the result
SourceIndex(i) == MathRound(i * hist.rates[1], hist.rates[2])

\* the length resampleAudio is to give
ResampledLength == MathRound(Len(hist.input) * hist.rates[2], hist.rates[1])

SessionStarted == ~hist.pre.app.isRecording /\ app.isRecording /\ audio.isRecording

\* the lines the task found are still there, the open one possibly
\* rewritten or finalised
NoLineRemoved ==
    /\ Len(ui.lines) >= Len(hist.pre.ui.lines)
    /\ \A i \in DOMAIN hist.pre.ui.lines :
           i # hist.pre.ui.partialBubble => ui.lines[i] = hist.pre.ui.lines[i]

\* C30: a task that starts a recording session leaves zero lines and no
\* open line; no other task removes a line, and a task other than a
\* transcript event (a stop, a closure, a handshake, a reconnect, a change of
\* configuration, a disconnect) leaves the lines and the open line as
\* they were.
C30_LinesPersistUntilSessionStart ==
    /\ SessionStarted => ui.lines = <<>> /\ ui.partialBubble = 0
    /\ ~SessionStarted => NoLineRemoved
    /\ (~SessionStarted /\ hist.op # "onmessage") =>
           /\ ui.lines = hist.pre.ui.lines
           /\ ui.partialBubble = hist.pre.ui.partialBubble

\* a reconnect timer fired, after the closure that stopped a session, with
\* a final line and an open line still on display
C30_Witness ==
    /\ hist.op = "timer"
    /\ ~app.isRecording
    /\ Len(ui.lines) = 2
    /\ ui.lines[1].className = "final"
    /\ ui.partialBubble = 2

Intervenes == hist'.op \in {"onopen", "connect", "disconnect", "updateConfig"}

\* once retrying: no timer is pending, no socket is connecting or open and
\* isConnected is false
AtRest ==
    hist.further >= 0 => (env.timers = 0 /\ ~SomeSocketUp /\ ~ws.isConnected)

\* C38: after an abnormal closure that no handshake and no explicit call
\* follows, connect() creates at most maxReconnectAttempts further sockets,
\* and the transport comes to rest for good: no pending timer, no
\* connecting or open socket, isConnected false.
C38_RetryTerminates ==
    /\ [](hist.further <= maxReconnectAttempts)
    /\ ([]<><<Intervenes>>_vars) \/ <>[]AtRest

====
